---------------------------- MODULE Spec2Model ----------------------------
(***************************************************************************)
(* Model of the Nevoton Komfort device client (src/api.py): the raw-socket *)
(* request, the extraction of the JSON payload from the response text, the *)
(* error classification and the three operations built on it.              *)
(*                                                                         *)
(* Text is modelled as a sequence of lexemes (tokens): one token per JSON  *)
(* punctuation character, string, number or literal, plus tokens for the   *)
(* status line, other non-JSON text, whitespace and undecodable bytes.     *)
(* Strings hold no braces, so the first '{' and the last '}' of a text are *)
(* the first and last brace tokens.  JSON values are null, integers,       *)
(* strings, lists and objects (no booleans or fractions: the device's      *)
(* fields are integers).                                                   *)
(*                                                                         *)
(* The client is driven by its callers: the coordinator's setup and update *)
(* (coordinator.py), the write methods of the switch, light, number and    *)
(* climate entities, and a direct user of setParameter.  A caller's method *)
(* awaits its operations in order; the log of each call records the        *)
(* operations called, their results and the refresh requested.  Floats are *)
(* fixed-point tenths; time is counted in seconds spent in blocking socket *)
(* calls.                                                                  *)
(***************************************************************************)
EXTENDS Integers, Sequences, FiniteSets, TLC

(* ---------------------------- bounds ---------------------------------- *)
\* error codes the device may report are 0..MaxErrCode
MaxErrCode == 7
\* longest arbitrary (possibly malformed) response text, in tokens
MaxText == 4
\* longest garbage run before and after the JSON object, in tokens
MaxGarbage == 2

(* ------------------------ program constants --------------------------- *)
AuthCode == 6

(* ------------------------- JSON / Python values ----------------------- *)
JNull == [t |-> "null"]
JInt(n) == [t |-> "int", n |-> n]
JStr(s) == [t |-> "str", s |-> s]
JList(l) == [t |-> "list", l |-> l]
JObj(o) == [t |-> "obj", o |-> o]
PyBool(b) == [t |-> "bool", b |-> b]
\* no value at all (nothing decoded, nothing returned)
NoValue == [t |-> "none"]

EmptyMap == [k \in {} |-> JNull]
EmptyDict == JObj(EmptyMap)

\* key in d, d a dict
HasKey(d, key) == key \in DOMAIN d.o

\* x == n, n an integer literal
PyEq(x, n) == x.t = "int" /\ x.n = n

\* bool(x)
PyTruthy(x) ==
    CASE x.t = "null" -> FALSE
      [] x.t = "int" -> x.n # 0
      [] x.t = "str" -> x.s # ""
      [] x.t = "list" -> Len(x.l) > 0
      [] x.t = "obj" -> DOMAIN x.o # {}
      [] OTHER -> FALSE

\* key in x, for the types that support the test (a string is atomic here)
PyIn(key, x) ==
    CASE x.t = "obj" -> key \in DOMAIN x.o
      [] x.t = "list" -> \E i \in 1..Len(x.l) : x.l[i] = JStr(key)
      [] x.t = "str" -> x.s = key
      [] OTHER -> FALSE

(* ------------------------------ tokens -------------------------------- *)
LBrace == [k |-> "{"]
RBrace == [k |-> "}"]
LBrack == [k |-> "["]
RBrack == [k |-> "]"]
Colon == [k |-> ":"]
Comma == [k |-> ","]
TNull == [k |-> "null"]
TNum(n) == [k |-> "num", n |-> n]
TStr(s) == [k |-> "str", s |-> s]
\* text that is no JSON lexeme
Junk(s) == [k |-> "junk", s |-> s]
\* whitespace
Ws == [k |-> "ws"]
\* a byte sequence that is not valid UTF-8
BadByte == [k |-> "bad"]
\* the status line the device sends twice
StatusLine == Junk("HTTP/1.1 200 OK")

(* ------------------ the device's side: JSON encoding ------------------ *)
RECURSIVE Encode(_), EncodeMembers(_, _), EncodeElems(_, _)
Encode(v) ==
    CASE v.t = "null" -> <<TNull>>
      [] v.t = "int" -> <<TNum(v.n)>>
      [] v.t = "str" -> <<TStr(v.s)>>
      [] v.t = "list" -> <<LBrack>> \o EncodeElems(v.l, 1) \o <<RBrack>>
      [] v.t = "obj" -> <<LBrace>> \o EncodeMembers(v.o, DOMAIN v.o) \o <<RBrace>>

EncodeMembers(o, ks) ==
    IF ks = {} THEN <<>>
    ELSE LET key == CHOOSE x \in ks : TRUE
         IN  <<TStr(key), Colon>> \o Encode(o[key]) \o
             (IF ks \ {key} = {} THEN <<>>
              ELSE <<Comma, Ws>> \o EncodeMembers(o, ks \ {key}))

EncodeElems(l, i) ==
    IF i > Len(l) THEN <<>>
    ELSE Encode(l[i]) \o
         (IF i = Len(l) THEN <<>> ELSE <<Comma, Ws>> \o EncodeElems(l, i + 1))

(* ----------------------------- json.loads ----------------------------- *)
ScanFail == [ok |-> FALSE]
ScanOk(v, i) == [ok |-> TRUE, v |-> v, i |-> i]

RECURSIVE scan_once(_, _), JSONObject(_, _, _), JSONArray(_, _, _)
\* the value starting at token i of s (1-based), and the index after it
scan_once(s, i) ==
    IF i > Len(s) THEN ScanFail
    ELSE CASE s[i].k = "null" -> ScanOk(JNull, i + 1)
           [] s[i].k = "num" -> ScanOk(JInt(s[i].n), i + 1)
           [] s[i].k = "str" -> ScanOk(JStr(s[i].s), i + 1)
           [] s[i].k = "{" ->
                IF i + 1 <= Len(s) /\ s[i + 1].k = "}"
                THEN ScanOk(EmptyDict, i + 2)
                ELSE JSONObject(s, i + 1, EmptyMap)
           [] s[i].k = "[" ->
                IF i + 1 <= Len(s) /\ s[i + 1].k = "]"
                THEN ScanOk(JList(<<>>), i + 2)
                ELSE JSONArray(s, i + 1, <<>>)
           [] OTHER -> ScanFail

\* members from token i on: string ':' value, then ',' and more or '}'
JSONObject(s, i, acc) ==
    IF i + 1 > Len(s) \/ s[i].k # "str" \/ s[i + 1].k # ":" THEN ScanFail
    ELSE LET r == scan_once(s, i + 2)
         IN  IF ~r.ok THEN ScanFail
             ELSE IF r.i > Len(s) THEN ScanFail
             ELSE IF s[r.i].k = ","
                  THEN JSONObject(s, r.i + 1, (s[i].s :> r.v) @@ acc)
             ELSE IF s[r.i].k = "}"
                  THEN ScanOk(JObj((s[i].s :> r.v) @@ acc), r.i + 1)
             ELSE ScanFail

\* elements from token i on: value, then ',' and more or ']'
JSONArray(s, i, acc) ==
    LET r == scan_once(s, i)
    IN  IF ~r.ok THEN ScanFail
        ELSE IF r.i > Len(s) THEN ScanFail
        ELSE IF s[r.i].k = "," THEN JSONArray(s, r.i + 1, Append(acc, r.v))
        ELSE IF s[r.i].k = "]" THEN ScanOk(JList(Append(acc, r.v)), r.i + 1)
        ELSE ScanFail

NotWs(tok) == tok.k # "ws"

\* json.loads(text): one value, whitespace allowed around tokens, no extra data
JsonLoads(text) ==
    LET s == SelectSeq(text, NotWs)
        r == scan_once(s, 1)
    IN  IF r.ok /\ r.i = Len(s) + 1 THEN [ok |-> TRUE, v |-> r.v]
        ELSE [ok |-> FALSE]

(* ------------------------- str.find / str.rfind ----------------------- *)
\* Python indices: 0-based, -1 when the character does not occur
find(text, c) ==
    IF \E i \in 1..Len(text) : text[i].k = c
    THEN (CHOOSE i \in 1..Len(text) :
              text[i].k = c /\ \A j \in 1..(i - 1) : text[j].k # c) - 1
    ELSE -1

rfind(text, c) ==
    IF \E i \in 1..Len(text) : text[i].k = c
    THEN (CHOOSE i \in 1..Len(text) :
              text[i].k = c /\ \A j \in (i + 1)..Len(text) : text[j].k # c) - 1
    ELSE -1

\* text[a:b]
Slice(text, a, b) == SubSeq(text, a + 1, b)

NotBad(tok) == tok.k # "bad"

\* bytes.decode('utf-8', errors='ignore')
decode(bytes) == SelectSeq(bytes, NotBad)


(* ------------------- _raw_request, after the transport ---------------- *)
\* what an operation does: raise exc, or return ret.  data is the decoded
\* payload (NoValue when none was decoded); extracted tells whether the
\* operation's own extraction step ran
Raised(exc, data, extracted) ==
    [exc |-> exc, ret |-> NoValue, data |-> data, extracted |-> extracted]
Returned(ret, data) ==
    [exc |-> "none", ret |-> ret, data |-> data, extracted |-> TRUE]

\* faulty variant: the payload ends at the first '}'
JsonText_FirstClose(response_text) ==
    LET json_start == find(response_text, "{")
        json_text == Slice(response_text, json_start, Len(response_text))
        json_end == find(json_text, "}")
    IN  IF json_end # -1 THEN Slice(json_text, 0, json_end + 1) ELSE json_text

\* faulty variant: nothing is cut off after the last '}'
JsonText_NoTrim(response_text) ==
    Slice(response_text, find(response_text, "{"), Len(response_text))

\* the substring from the first '{' to the last '}' (to the end without '}')
JsonText(response_text) ==
    LET json_start == find(response_text, "{")
        json_text == Slice(response_text, json_start, Len(response_text))
        json_end == rfind(json_text, "}")
    IN  IF json_end # -1 THEN Slice(json_text, 0, json_end + 1) ELSE json_text

\* faulty variant: the invalid-password code is not told apart
ApiErrorCheck_NoAuth(data) ==
    IF HasKey(data, "error_api") THEN "NevotonApiError" ELSE "none"

\* faulty variant: a falsy error_api (0, null) passes the check
ApiErrorCheck_Truthy(data) ==
    IF HasKey(data, "error_api") /\ PyTruthy(data.o["error_api"])
    THEN IF PyEq(data.o["error_api"], AuthCode) THEN "NevotonAuthError"
         ELSE "NevotonApiError"
    ELSE "none"

\* the check of error_api: the exception it raises, "none" when it passes
ApiErrorCheck(data) ==
    IF HasKey(data, "error_api")
    THEN IF PyEq(data.o["error_api"], AuthCode) THEN "NevotonAuthError"
         ELSE "NevotonApiError"
    ELSE "none"

\* faulty variant: a falsy error_device (0, null) passes the check
DeviceErrorCheck_Truthy(data) ==
    IF HasKey(data, "error_device") /\ PyTruthy(data.o["error_device"])
    THEN "NevotonApiError"
    ELSE "none"

\* the check of error_device
DeviceErrorCheck(data) ==
    IF HasKey(data, "error_device") /\ ~PyEq(data.o["error_device"], 0)
    THEN "NevotonApiError"
    ELSE "none"

\* the exception raised for a response without '{'
NoJsonError == "NevotonApiError"

\* the exception raised for json.JSONDecodeError
InvalidJsonError == "NevotonApiError"

\* _raw_request from the response text on: [exc, data]
raw_request(response_text) ==
    IF find(response_text, "{") = -1 THEN [exc |-> NoJsonError, data |-> NoValue]
    ELSE LET d == JsonLoads(JsonText(response_text))
         IN  IF ~d.ok THEN [exc |-> InvalidJsonError, data |-> NoValue]
             ELSE IF ApiErrorCheck(d.v) # "none"
                  THEN [exc |-> ApiErrorCheck(d.v), data |-> d.v]
             ELSE IF DeviceErrorCheck(d.v) # "none"
                  THEN [exc |-> DeviceErrorCheck(d.v), data |-> d.v]
             ELSE [exc |-> "none", data |-> d.v]

\* faulty variant: only socket.timeout is caught, another socket.error propagates
TransportError_TimeoutOnly(thrown) ==
    IF thrown = "timeout" THEN "NevotonConnectionError"
    ELSE "OSError"

\* the exception _raw_request raises for an exception of sync_request
\* (socket.timeout or another socket.error)
TransportError(thrown) ==
    IF thrown = "timeout" THEN "NevotonConnectionError"
    ELSE "NevotonConnectionError"

\* isinstance(exc, cls) for the client's exception classes
IsA(exc, cls) ==
    \/ exc = cls
    \/ cls = "NevotonApiError" /\ exc \in {"NevotonAuthError", "NevotonConnectionError"}

(* ------------------------ the three operations ------------------------ *)
\* async_get_state after _request returned data
get_state_extract(data) ==
    IF ~HasKey(data, "inputs") THEN Returned(EmptyDict, data)
    ELSE LET inputs == data.o["inputs"]
         IN  IF inputs.t \in {"null", "int"} THEN Raised("TypeError", data, TRUE)
             ELSE IF ~PyIn("data", inputs) THEN Returned(EmptyDict, data)
             ELSE IF inputs.t # "obj" THEN Raised("TypeError", data, TRUE)
             ELSE LET inputs_data == inputs.o["data"]
                  IN  IF ~PyTruthy(inputs_data) THEN Returned(EmptyDict, data)
                      ELSE IF inputs_data.t = "int" THEN Raised("TypeError", data, TRUE)
                      ELSE IF inputs_data.t = "obj" THEN Raised("KeyError", data, TRUE)
                      ELSE IF inputs_data.t = "str" THEN Raised("AttributeError", data, TRUE)
                      ELSE IF inputs_data.l[1].t # "obj"
                           THEN Raised("AttributeError", data, TRUE)
                      ELSE IF HasKey(inputs_data.l[1], "value")
                           THEN Returned(inputs_data.l[1].o["value"], data)
                      ELSE Returned(EmptyDict, data)

\* async_set_parameter after _request returned data
set_parameter_extract(data) ==
    IF HasKey(data, "outputs")
    THEN LET outputs == data.o["outputs"]
         IN  IF outputs.t # "obj" THEN Raised("AttributeError", data, TRUE)
             ELSE IF HasKey(outputs, "error_ch")
                  THEN Returned(PyBool(PyEq(outputs.o["error_ch"], 0)), data)
             ELSE Returned(PyBool(FALSE), data)
    ELSE Returned(PyBool(FALSE), data)

\* async_get_device_info after _request returned data
get_device_info_extract(data) == Returned(data, data)

\* the outcome of operation name when sync_request raised thrown ("none" when
\* it returned) and received the bytes response
Outcome(name, thrown, response) ==
    IF thrown # "none" THEN Raised(TransportError(thrown), NoValue, FALSE)
    ELSE LET r == raw_request(decode(response))
         IN  IF r.exc # "none" THEN Raised(r.exc, r.data, FALSE)
             ELSE CASE name = "get_state" -> get_state_extract(r.data)
                    [] name = "set_parameter" -> set_parameter_extract(r.data)
                    [] OTHER -> get_device_info_extract(r.data)

(* ----------------------- the device's responses ----------------------- *)
\* a response: the tokens before the JSON object, the object the device
\* encodes (NoValue: none), the tokens after it
Response(head, body, tail) == [head |-> head, body |-> body, tail |-> tail]
NoWire == [head |-> <<>>, body |-> NoValue, tail |-> <<>>, none |-> TRUE]

\* the bytes of a response
WireText(r) ==
    r.head \o (IF r.body = NoValue THEN <<>> ELSE Encode(r.body)) \o r.tail

SeqsUpTo(A, n) == UNION {[1..m -> A] : m \in 0..n}

\* the duplicated status line and the blank line before the body
Preamble == <<StatusLine, StatusLine, Ws>>

ErrVals == {JNull} \cup {JInt(n) : n \in 0..MaxErrCode}
\* every choice of error_api and error_device, each absent or any value
ErrFields == UNION {[ks -> ErrVals] : ks \in SUBSET {"error_api", "error_device"}}

Snap1 == JObj([Heat_switch |-> JInt(1), Temperature_REAL |-> JInt(85)])
Info1 == [device |-> JObj([id |-> JStr("id1"), macSTA |-> JStr("mac1")]),
          firmwareVersion |-> JStr("fw1"), moduleName |-> JStr("Komfort")]
Info2 == [device |-> JObj([id |-> JStr("id2")]), firmwareVersion |-> JStr("fw2")]

DataShapes ==
    {JNull, JInt(0), JInt(1), JStr("x"), JList(<<>>), EmptyDict,
     JObj([k |-> JInt(1)]), JList(<<JInt(5)>>), JList(<<EmptyDict>>),
     JList(<<JObj([value |-> EmptyDict])>>), JList(<<JObj([value |-> Snap1])>>),
     JList(<<JObj([value |-> JNull])>>), JList(<<JObj([value |-> JInt(5)])>>),
     JList(<<JObj([value |-> Snap1]), JObj([value |-> EmptyDict])>>)}
InputsShapes ==
    {JNull, JInt(1), JStr("data"), JList(<<>>), JList(<<JStr("data")>>), EmptyDict}
    \cup {JObj([data |-> x]) : x \in DataShapes}
OutputsShapes ==
    {JNull, JInt(0), JStr("ok"), JList(<<>>), EmptyDict, JObj([other |-> JInt(0)])}
    \cup {JObj([error_ch |-> x]) : x \in ErrVals}

\* the sections a response may carry besides the error fields
StateBody == [inputs |-> JObj([data |-> JList(<<JObj([value |-> Snap1])>>)])]
WriteBody == [outputs |-> JObj([error_ch |-> JInt(0)])]
AllBodies ==
    {EmptyMap} \cup {[inputs |-> x] : x \in InputsShapes}
               \cup {[outputs |-> x] : x \in OutputsShapes}

\* what the device-description endpoint may answer
InfoPayloads == {JObj(f @@ Info1) : f \in ErrFields} \cup {JObj(Info2)}
\* what the inputs and outputs endpoints may answer
Payloads ==
    {JObj(f @@ b) : f \in ErrFields, b \in {EmptyMap, StateBody, WriteBody}}
    \cup {JObj(b) : b \in AllBodies}

\* arbitrary, possibly malformed texts
TextAlphabet == {LBrace, RBrace, TStr("a"), Colon, StatusLine}
Texts == SeqsUpTo(TextAlphabet, MaxText)

\* snapshots wrapped in two status lines and garbage
Snapshots == {EmptyDict, Snap1, JObj([a |-> JObj([b |-> JList(<<JInt(1), EmptyDict>>)])])}
GarbageAlphabet == {Junk("<html>"), LBrace, RBrace}
Garbage == SeqsUpTo(GarbageAlphabet, MaxGarbage)
Wrapped ==
    {Response(<<StatusLine, StatusLine, BadByte>> \o g1, s, g2) :
        g1 \in Garbage, g2 \in Garbage, s \in Snapshots}

IsWrapped(r) == r \in Wrapped

\* the responses of the model with every shape of payload and text
AllResponses ==
    {Response(Preamble, p, <<>>) : p \in Payloads}
    \cup {Response(x, NoValue, <<>>) : x \in Texts}
    \cup Wrapped
AllInfoResponses ==
    {Response(Preamble, p, <<>>) : p \in InfoPayloads}
    \cup {Response(<<StatusLine>>, NoValue, <<>>)}

\* a few representative responses, for the model with overlapping callers
CoreResponses ==
    {Response(Preamble, JObj(StateBody), <<>>),
     Response(Preamble, JObj(WriteBody), <<>>),
     Response(Preamble, JObj([error_api |-> JInt(AuthCode)]), <<>>),
     Response(Preamble, JObj([error_device |-> JInt(1)]), <<>>),
     Response(<<StatusLine, BadByte>>, NoValue, <<>>)}
CoreInfoResponses ==
    {Response(Preamble, JObj(Info1), <<>>),
     Response(Preamble, JObj([error_api |-> JInt(AuthCode)]), <<>>)}

\* the responses the device may give to operation name
Serve(full, name) ==
    IF name = "get_device_info"
    THEN (IF full THEN AllInfoResponses ELSE CoreInfoResponses)
    ELSE (IF full THEN AllResponses ELSE CoreResponses)

(* ------------------------ numbers and requests ------------------------ *)
\* a Python float, fixed-point with one decimal: x stands for x / Tenths
Tenths == 10
PyFloat(x) == [t |-> "float", x |-> x]

\* faulty variant: the fraction is dropped toward minus infinity
int_floor(v) == IF v.t = "int" THEN v ELSE JInt(v.x \div Tenths)

\* int(v), v an int or a float: truncation toward zero
int_value(v) ==
    IF v.t = "int" THEN v
    ELSE JInt(IF v.x >= 0 THEN v.x \div Tenths ELSE -((-v.x) \div Tenths))

\* round(num / den), num and den positive, no exact halves among the inputs
round(num, den) == (2 * num + den) \div (2 * den)

Max(a, b) == IF a >= b THEN a ELSE b
Min(a, b) == IF a <= b THEN a ELSE b

\* str(v) as f"{k}={v}" renders it: digits for an int, digits with a decimal
\* point for a float, the characters of a string
format(v) ==
    CASE v.t = "int" -> [lex |-> "digits", n |-> v.n, s |-> ""]
      [] v.t = "float" -> [lex |-> "decimal", n |-> v.x, s |-> ""]
      [] OTHER -> [lex |-> "chars", n |-> 0, s |-> v.s]

\* hashlib.sha1(password.encode()).hexdigest()
hexdigest(password) ==
    CASE password = "secret" -> "e5e9fa1ba31ecd1ae84f75caaa474f3a663f05f4"
      [] password = "other" -> "d0941e68da8f38151ff86a61fc59f7c5cf9fcaa2"

API_DEVICE_DESCRIPTION == "/get/m2m/deviceDescription"
API_GET_INPUTS == "/get/m2m/inputs"
API_SET_OUTPUTS == "/set/m2m/outputs"
PARAM_TYPE == "type"
PARAM_NUMBER == "number"
PARAM_HASH == "hash"
PARAM_SP_NAME == "sp_name"
PARAM_VALUE == "value"
TYPE_SPECIFIC == "specific"
LIGHT_DIMMER_MAX == 6

\* params[key] = value on a dict, which keeps insertion order; params is the
\* sequence of its items
DictSet(params, key, value) ==
    IF \E i \in 1..Len(params) : params[i][1] = key
    THEN [i \in 1..Len(params) |->
             IF params[i][1] = key THEN <<key, value>> ELSE params[i]]
    ELSE Append(params, <<key, value>>)

\* faulty variant: the digest leads the query
hash_first(params, digest) == <<<<PARAM_HASH, JStr(digest)>>>> \o params

\* params[PARAM_HASH] = self._password_hash
with_hash(params, digest) == DictSet(params, PARAM_HASH, JStr(digest))

\* the URL path: the endpoint and the query, one key=value item per parameter
build_url(endpoint, params, digest) ==
    LET p == with_hash(params, digest)
    IN  [endpoint |-> endpoint,
         query |-> [i \in 1..Len(p) |-> <<p[i][1], format(p[i][2])>>]]

\* the operations of the client
NoOp == [name |-> "none", parameter |-> "", value |-> JInt(0)]
GetDeviceInfo == [name |-> "get_device_info", parameter |-> "", value |-> JInt(0)]
GetState == [name |-> "get_state", parameter |-> "", value |-> JInt(0)]
SetParameter(parameter, value) ==
    [name |-> "set_parameter", parameter |-> parameter, value |-> value]

EndpointOf(op) ==
    CASE op.name = "get_device_info" -> API_DEVICE_DESCRIPTION
      [] op.name = "get_state" -> API_GET_INPUTS
      [] op.name = "set_parameter" -> API_SET_OUTPUTS

\* the params dict each operation passes to _request
ParamsOf(op) ==
    CASE op.name = "get_device_info" -> <<>>
      [] op.name = "get_state" ->
            <<<<PARAM_TYPE, JStr(TYPE_SPECIFIC)>>, <<PARAM_NUMBER, JInt(0)>>>>
      [] op.name = "set_parameter" ->
            <<<<PARAM_TYPE, JStr(TYPE_SPECIFIC)>>, <<PARAM_NUMBER, JInt(0)>>,
              <<PARAM_SP_NAME, JStr(op.parameter)>>, <<PARAM_VALUE, int_value(op.value)>>>>

\* the request _raw_request writes: the URL path and the Host header
NoRequest == [host |-> "", endpoint |-> "", query |-> <<>>]
RequestOf(op, cl) ==
    LET url == build_url(EndpointOf(op), ParamsOf(op), cl.password_hash)
    IN  [host |-> cl.host, endpoint |-> url.endpoint, query |-> url.query]

(* ------------------------------ callers ------------------------------- *)
\* the callers sharing one client: the coordinator's poll, an entity's write
Callers == {"poll", "write"}

\* what a caller does with the client: the operations it awaits in order and
\* whether it requests a coordinator refresh after them
CallOf(kind, api, refresh) == [kind |-> kind, api |-> api, refresh |-> refresh]
NoCall == CallOf("none", <<>>, FALSE)

\* the dimmer level for a brightness of 1..255
dimmer_value(brightness) ==
    Max(1, Min(LIGHT_DIMMER_MAX, round(brightness * LIGHT_DIMMER_MAX, 255)))

switch_turn_on(api_param) ==
    CallOf("switch_turn_on", <<SetParameter(api_param, JInt(1))>>, TRUE)
switch_turn_off(api_param) ==
    CallOf("switch_turn_off", <<SetParameter(api_param, JInt(0))>>, TRUE)
\* brightness 0 stands for a call without the brightness argument
light_turn_on(brightness) ==
    CallOf("light_turn_on",
           <<SetParameter("Light_switch", JInt(1))>> \o
           (IF brightness = 0 THEN <<>>
            ELSE <<SetParameter("Light_dimmer", JInt(dimmer_value(brightness)))>>),
           TRUE)
light_turn_off == CallOf("light_turn_off", <<SetParameter("Light_switch", JInt(0))>>, TRUE)
number_set_native_value(api_param, value) ==
    CallOf("number_set_native_value", <<SetParameter(api_param, int_value(value))>>, TRUE)
\* temperature NoValue stands for a call without the temperature argument
climate_set_temperature(temperature) ==
    IF temperature = NoValue THEN CallOf("climate_set_temperature", <<>>, FALSE)
    ELSE CallOf("climate_set_temperature",
                <<SetParameter("Temperature_SET", int_value(temperature))>>, TRUE)
climate_set_hvac_mode(hvac_mode) ==
    IF hvac_mode = "heat"
    THEN CallOf("climate_set_hvac_mode",
                <<SetParameter("MainPower_switch", JInt(1)),
                  SetParameter("Heat_switch", JInt(1))>>, TRUE)
    ELSE CallOf("climate_set_hvac_mode", <<SetParameter("Heat_switch", JInt(0))>>, TRUE)

\* the numbers a user of the client passes to setParameter directly
Values == {JInt(21), PyFloat(219), PyFloat(-5), PyFloat(-219)}
Brightnesses == {0, 1, 128, 255}

\* the calls each caller makes (rich: every entity operation and direct use)
CallsOf(t, rich) ==
    IF t = "poll"
    THEN {CallOf("coordinator_setup", <<GetDeviceInfo>>, FALSE),
          CallOf("coordinator_update", <<GetState>>, FALSE)}
    ELSE IF ~rich
    THEN {switch_turn_on("Heat_switch")}
    ELSE {switch_turn_on("Fan_switch"), switch_turn_off("Fan_switch"), light_turn_off,
          number_set_native_value("Humidity_SET", PyFloat(455)),
          climate_set_temperature(NoValue), climate_set_temperature(PyFloat(755)),
          climate_set_hvac_mode("heat"), climate_set_hvac_mode("off")}
         \cup {light_turn_on(b) : b \in Brightnesses}
         \cup {CallOf("set_parameter", <<SetParameter("Temperature_SET", v)>>, FALSE) :
                  v \in Values}

\* what the coordinator makes of the client's outcome in _async_setup
Raise(exc) == [exc |-> exc, ret |-> NoValue]
Return(ret) == [exc |-> "none", ret |-> ret]
NoResult == Return(NoValue)

\* faulty variant: the general except clause comes first
coordinator_update_general_first(out) ==
    IF IsA(out.exc, "NevotonApiError") \/ IsA(out.exc, "NevotonConnectionError")
    THEN Raise("UpdateFailed")
    ELSE IF IsA(out.exc, "NevotonAuthError") THEN Raise("ConfigEntryAuthFailed")
    ELSE IF out.exc # "none" THEN Raise(out.exc)
    ELSE Return(out.ret)

coordinator_setup(out) ==
    IF IsA(out.exc, "NevotonAuthError") THEN Raise("ConfigEntryAuthFailed")
    ELSE IF IsA(out.exc, "NevotonApiError") THEN Raise("UpdateFailed")
    ELSE IF out.exc # "none" THEN Raise(out.exc)
    ELSE Return(JNull)

\* _async_update_data
coordinator_update(out) ==
    IF IsA(out.exc, "NevotonAuthError") THEN Raise("ConfigEntryAuthFailed")
    ELSE IF IsA(out.exc, "NevotonConnectionError") THEN Raise("UpdateFailed")
    ELSE IF IsA(out.exc, "NevotonApiError") THEN Raise("UpdateFailed")
    ELSE IF out.exc # "none" THEN Raise(out.exc)
    ELSE Return(out.ret)

\* what the caller gets from its call once the last awaited operation is over
CallerResult(kind, out) ==
    CASE kind = "coordinator_setup" -> coordinator_setup(out)
      [] kind = "coordinator_update" -> coordinator_update(out)
      [] kind = "set_parameter" -> [exc |-> out.exc, ret |-> out.ret]
      [] OTHER -> IF out.exc # "none" THEN Raise(out.exc) ELSE Return(JNull)

\* faulty variant: the awaiting method carries on after an exception
continues_always(exc) == TRUE

\* an awaiting method goes on to its next statement when the awaited call
\* raised nothing
continues(exc) == exc = "none"

\* the accessors of the cached identity
PyGet(d, key, default) == IF HasKey(d, key) THEN d.o[key] ELSE default
device_id(info) ==
    IF PyTruthy(info) THEN PyGet(PyGet(info, "device", EmptyDict), "id", JNull) ELSE JNull
device_mac(info) ==
    IF PyTruthy(info) THEN PyGet(PyGet(info, "device", EmptyDict), "macSTA", JNull)
    ELSE JNull
firmware_version(info) ==
    IF PyTruthy(info) THEN PyGet(info, "firmwareVersion", JNull) ELSE JNull
model_name(info) ==
    IF PyTruthy(info) THEN PyGet(info, "moduleName", JNull) ELSE JNull

(* ------------------------------- state -------------------------------- *)
NoOutcome == [exc |-> "none", ret |-> NoValue, data |-> NoValue, extracted |-> FALSE]

\* the seconds one blocking socket call may take before it raises socket.timeout
Timeout == 10
\* the seconds a slow peer takes over one blocking socket call
SlowWait == 5
\* how long a blocking socket call that succeeds takes
Waits(rich) == IF rich THEN {0, SlowWait} ELSE {0}

\* the config entries a client is built from
Hosts == {"192.168.1.50"}
Passwords(rich) == IF rich THEN {"secret", "other"} ELSE {"secret"}

\* what a caller saw happen, in order: the operations it called, what each
\* gave back, the refresh it requested
CallEv(op) == [ev |-> "call", op |-> op, exc |-> "none", ret |-> NoValue]
ResultEv(out) == [ev |-> "result", op |-> NoOp, exc |-> out.exc, ret |-> out.ret]
RefreshEv == [ev |-> "refresh", op |-> NoOp, exc |-> "none", ret |-> NoValue]

VARIABLES
    \* per caller: the call it is making and the request it has in flight
    \*   pc        where the request is
    \*   call      the caller's call (a coordinator or entity method)
    \*   step      the position in call.api of the operation in progress
    \*   log       the events of the call so far
    \*   result    what the call returned or raised, once done
    \*   op        the operation called
    \*   request   the request built for it
    \*   sock      the socket of sync_request: "none", "open" (created),
    \*             "connected" or "closed"
    \*   opened    the sockets created for the operation
    \*   sent      the requests handed to sendall for the operation
    \*   elapsed   the seconds sync_request has spent in blocking socket calls
    \*   wire      the response the device is sending
    \*   response  the bytes accumulated by the recv loop
    \*   thrown    the exception sync_request raised: "none", "timeout", "error"
    \*   stage     where it was raised: "connect", "send", "recv"
    \*   partial   whether bytes had been received when it was raised
    \*   outcome   what the operation returned or raised to its caller
    task,
    \* the client's cached identity, NoValue for None
    device_info,
    \* what the latest successful get_device_info returned, NoValue before
    last_info,
    \* the host and password the client was constructed with
    entry,
    \* the client's _host and _password_hash
    client

vars == <<task, device_info, last_info, entry, client>>

IdleTask ==
    [pc |-> "idle", call |-> NoCall, step |-> 0, log |-> <<>>, result |-> NoResult,
     op |-> NoOp, request |-> NoRequest, sock |-> "none", opened |-> 0, sent |-> <<>>,
     elapsed |-> 0, wire |-> NoWire, response |-> <<>>, thrown |-> "none",
     stage |-> "none", partial |-> FALSE, outcome |-> NoOutcome]

\* NevotonKomfortApi.__init__
InitOf(rich) ==
    /\ task = [t \in Callers |-> IdleTask]
    /\ device_info = NoValue
    /\ last_info = NoValue
    /\ entry \in [host : Hosts, password : Passwords(rich)]
    /\ client = [host |-> entry.host, password_hash |-> hexdigest(entry.password)]

Init == InitOf(FALSE)

\* the number of sockets the client holds open
OpenCount == Cardinality({t \in Callers : task[t].sock \in {"open", "connected"}})
\* the number of connections established and not closed
ConnectedCount == Cardinality({t \in Callers : task[t].sock = "connected"})

\* faulty variant: the socket is closed on the normal path only (no finally)
close_on_return(sock, thrown) == IF thrown = "none" THEN "closed" ELSE sock

\* the state of the socket after the finally block of sync_request
finally_close(sock, thrown) == "closed"

\* faulty variant: a failed exchange is tried once more
retry_once(thrown, opened) ==
    IF thrown # "none" /\ opened < 2 THEN "dispatched" ELSE "returned"

\* where the request goes after the finally block: back to the coroutine
after_close(thrown, opened) == "returned"

\* faulty variant: the first identity is kept
store_first(old, data) == IF old = NoValue THEN data ELSE old

\* self._device_info = data
store(old, data) == data

\* faulty variant: every successful operation caches its payload
caches_any_op(name, exc) == exc = "none"

\* whether the operation assigns the cached identity
caches(name, exc) == name = "get_device_info" /\ exc = "none"

(* ------------------------------ actions ------------------------------- *)
\* operation o of caller t is called: the request is built and handed to the
\* executor
Dispatch(tk, o, k) ==
    [tk EXCEPT !.pc = "dispatched", !.op = o, !.step = k,
               !.request = RequestOf(o, client), !.opened = 0, !.sent = <<>>,
               !.elapsed = 0, !.wire = NoWire, !.response = <<>>, !.thrown = "none",
               !.stage = "none", !.partial = FALSE, !.log = Append(@, CallEv(o))]

\* a caller makes a call: its first operation is called, or, when the call has
\* no operation, it returns at once
\* (serial: the callers keep the single-flight discipline)
Call(t, serial, rich) ==
    /\ task[t].pc = "idle"
    /\ serial => \A u \in Callers : task[u].pc = "idle"
    /\ \E c \in CallsOf(t, rich) :
          LET tk == [IdleTask EXCEPT !.call = c, !.sock = task[t].sock]
          IN  task' = [task EXCEPT ![t] =
                          IF Len(c.api) = 0
                          THEN [tk EXCEPT !.pc = "done", !.result = Return(JNull)]
                          ELSE Dispatch(tk, c.api[1], 1)]
    /\ UNCHANGED <<device_info, last_info, entry, client>>

\* sync_request creates its socket and sets the timeout
SockCreate(t) ==
    /\ task[t].pc = "dispatched"
    /\ task' = [task EXCEPT ![t].pc = "connect", ![t].sock = "open",
                            ![t].opened = @ + 1]
    /\ UNCHANGED <<device_info, last_info, entry, client>>

\* an exception leaves the try block: the locals are gone, finally runs next;
\* a timeout is raised by a socket call that blocked for Timeout seconds
Throw(t, e, stage, sent) ==
    task' = [task EXCEPT ![t].pc = "finally", ![t].thrown = e, ![t].stage = stage,
                         ![t].partial = (Len(task[t].response) > 0),
                         ![t].response = <<>>, ![t].wire = NoWire,
                         ![t].sent = @ \o sent,
                         ![t].elapsed = IF e = "timeout" THEN @ + Timeout ELSE @]

ConnectOk(t, rich) ==
    /\ task[t].pc = "connect"
    /\ \E w \in Waits(rich) :
          task' = [task EXCEPT ![t].pc = "send", ![t].sock = "connected",
                               ![t].elapsed = @ + w]
    /\ UNCHANGED <<device_info, last_info, entry, client>>

ConnectFail(t) ==
    /\ task[t].pc = "connect"
    /\ \E e \in {"timeout", "error"} : Throw(t, e, "connect", <<>>)
    /\ UNCHANGED <<device_info, last_info, entry, client>>

SendOk(t, rich) ==
    /\ task[t].pc = "send"
    /\ \E w \in Waits(rich) :
          task' = [task EXCEPT ![t].pc = "recv", ![t].sent = Append(@, task[t].request),
                               ![t].elapsed = @ + w]
    /\ UNCHANGED <<device_info, last_info, entry, client>>

SendFail(t) ==
    /\ task[t].pc = "send"
    /\ \E e \in {"timeout", "error"} : Throw(t, e, "send", <<task[t].request>>)
    /\ UNCHANGED <<device_info, last_info, entry, client>>

\* the sizes of the next chunk: all that is left, or the part before the body
ChunkCuts(r, got) ==
    {Len(WireText(r)) - got} \cup
    (IF got = 0 /\ Len(r.head) > 0 /\ Len(r.head) < Len(WireText(r))
     THEN {Len(r.head)} ELSE {})

\* the response being sent, chosen by the device when it first answers
Sending(t, full) ==
    IF task[t].wire = NoWire THEN Serve(full, task[t].op.name) ELSE {task[t].wire}

\* recv returns a chunk
RecvChunk(t, full, rich) ==
    /\ task[t].pc = "recv"
    /\ \E r \in Sending(t, full), w \in Waits(rich) :
          LET got == Len(task[t].response)
          IN  /\ got < Len(WireText(r))
              /\ \E n \in ChunkCuts(r, got) :
                    task' = [task EXCEPT ![t].wire = r,
                               ![t].response = @ \o SubSeq(WireText(r), got + 1, got + n),
                               ![t].elapsed = @ + w]
    /\ UNCHANGED <<device_info, last_info, entry, client>>

\* recv returns no bytes: the peer closed, the loop ends, the text is returned
RecvEof(t, full, rich) ==
    /\ task[t].pc = "recv"
    /\ \E r \in Sending(t, full), w \in Waits(rich) :
          /\ Len(task[t].response) = Len(WireText(r))
          /\ task' = [task EXCEPT ![t].wire = r, ![t].pc = "finally",
                                  ![t].elapsed = @ + w]
    /\ UNCHANGED <<device_info, last_info, entry, client>>

RecvFail(t) ==
    /\ task[t].pc = "recv"
    /\ \E e \in {"timeout", "error"} : Throw(t, e, "recv", <<>>)
    /\ UNCHANGED <<device_info, last_info, entry, client>>

\* the finally block: the executor's job ends with a result or an exception
Close(t) ==
    /\ task[t].pc = "finally"
    /\ task' = [task EXCEPT ![t].pc = after_close(task[t].thrown, task[t].opened),
                            ![t].sock = finally_close(task[t].sock, task[t].thrown)]
    /\ UNCHANGED <<device_info, last_info, entry, client>>

\* the coroutine resumes: the rest of _raw_request and of the operation, then
\* the caller's method up to its next awaited operation or to its end
Resume(t) ==
    /\ task[t].pc = "returned"
    /\ LET out == Outcome(task[t].op.name, task[t].thrown, task[t].response)
           c == task[t].call
           k == task[t].step
           tk == [task[t] EXCEPT !.outcome = out, !.log = Append(@, ResultEv(out))]
       IN  /\ task' = [task EXCEPT ![t] =
                          IF continues(out.exc) /\ k < Len(c.api)
                          THEN Dispatch(tk, c.api[k + 1], k + 1)
                          ELSE [tk EXCEPT !.pc = "done",
                                          !.result = CallerResult(c.kind, out),
                                          !.log = IF continues(out.exc) /\ c.refresh
                                                  THEN Append(@, RefreshEv) ELSE @]]
           /\ device_info' =
                 IF caches(task[t].op.name, out.exc)
                 THEN store(device_info, out.data) ELSE device_info
           /\ last_info' =
                 IF task[t].op.name = "get_device_info" /\ out.exc = "none"
                 THEN out.ret ELSE last_info
    /\ UNCHANGED <<entry, client>>

\* the caller has its result; it may call again
Finish(t) ==
    /\ task[t].pc = "done"
    /\ task' = [task EXCEPT ![t] = [IdleTask EXCEPT !.sock = task[t].sock]]
    /\ UNCHANGED <<device_info, last_info, entry, client>>

NextOf(serial, full, rich) ==
    \E t \in Callers :
        \/ Call(t, serial, rich)
        \/ SockCreate(t)
        \/ ConnectOk(t, rich)
        \/ ConnectFail(t)
        \/ SendOk(t, rich)
        \/ SendFail(t)
        \/ RecvChunk(t, full, rich)
        \/ RecvEof(t, full, rich)
        \/ RecvFail(t)
        \/ Close(t)
        \/ Resume(t)
        \/ Finish(t)

\* callers overlap, as the periodic poll and an entity's write do
Next == NextOf(FALSE, FALSE, FALSE)
Spec == Init /\ [][Next]_vars

\* callers keep the single-flight discipline; every shape of response
NextSerial == NextOf(TRUE, TRUE, FALSE)
SpecSerial == Init /\ [][NextSerial]_vars

\* callers keep the single-flight discipline and make every call of the
\* coordinator, of the entities and of a direct user, against a slow device
InitApp == InitOf(TRUE)
NextApp == NextOf(TRUE, FALSE, TRUE)
SpecApp == InitApp /\ [][NextApp]_vars

(* ------------------------------- claims ------------------------------- *)
Done(t) == task[t].pc = "done"
\* the request of t got its whole response: sync_request raised nothing
Answered(t) == Done(t) /\ task[t].thrown = "none"
\* the response carries one JSON object and no brace outside it in the way:
\* no '{' before the object, no '}' after it
Framed(r) == r.body # NoValue /\ find(r.head, "{") = -1 /\ rfind(r.tail, "}") = -1
\* the object the device sent to t
Sent(t) == task[t].wire.body
\* t was answered with a cleanly framed object
Decoded(t) == Answered(t) /\ Framed(task[t].wire)
Field(d, key, v) == HasKey(d, key) /\ d.o[key] = v
\* neither error field of d is adverse
ErrorFree(d) ==
    /\ ~HasKey(d, "error_api")
    /\ ~HasKey(d, "error_device") \/ Field(d, "error_device", JInt(0))
OpName(t) == task[t].op.name

\* C1: whenever the decoded response object contains error_api = 6, the
\* operation (get_device_info, get_state or set_parameter) raises
\* NevotonAuthError whatever the other fields are; its extraction step does not
\* run and nothing is returned.
C1_AuthError ==
    \A t \in Callers :
        Decoded(t) /\ Field(Sent(t), "error_api", JInt(AuthCode))
        => /\ task[t].outcome.exc = "NevotonAuthError"
           /\ ~task[t].outcome.extracted
           /\ task[t].outcome.ret = NoValue

\* a set_parameter answered with error_api = 6 and a non-zero error_device
C1_Witness ==
    \E t \in Callers :
        /\ Decoded(t) /\ OpName(t) = "set_parameter"
        /\ Field(Sent(t), "error_api", JInt(AuthCode))
        /\ Field(Sent(t), "error_device", JInt(1))
        /\ HasKey(Sent(t), "outputs")
        /\ task[t].outcome.exc = "NevotonAuthError"

\* C2: a decoded response object without error_api whose error_device is not
\* zero makes the request raise plain NevotonApiError and return nothing; with
\* error_device = 0 and no error_api the checks raise nothing and the payload
\* goes on to the operation's extraction.
C2_DeviceError ==
    \A t \in Callers :
        Decoded(t) /\ ~HasKey(Sent(t), "error_api") /\ HasKey(Sent(t), "error_device")
        => IF Sent(t).o["error_device"] = JInt(0)
           THEN task[t].outcome.extracted
           ELSE /\ task[t].outcome.exc = "NevotonApiError"
                /\ ~task[t].outcome.extracted
                /\ task[t].outcome.ret = NoValue

\* a get_state answered with error_device = null and no error_api
C2_Witness ==
    \E t \in Callers :
        /\ Decoded(t) /\ OpName(t) = "get_state"
        /\ ~HasKey(Sent(t), "error_api")
        /\ Field(Sent(t), "error_device", JNull)
        /\ task[t].outcome.exc = "NevotonApiError"

\* C3: an error_api field of any value other than 6 (0 and null included)
\* makes the request raise plain NevotonApiError without reaching the
\* extraction step; a payload reaches extraction only when error_api is absent
\* and error_device is absent or zero.
C3_ApiError ==
    \A t \in Callers :
        /\ Decoded(t) /\ HasKey(Sent(t), "error_api")
              /\ Sent(t).o["error_api"] # JInt(AuthCode)
           => /\ task[t].outcome.exc = "NevotonApiError"
              /\ ~task[t].outcome.extracted
        /\ Done(t) /\ task[t].outcome.extracted
           => /\ task[t].outcome.data.t = "obj"
              /\ ErrorFree(task[t].outcome.data)
              /\ Framed(task[t].wire) => ErrorFree(Sent(t))

\* a get_device_info answered with error_api = 0
C3_Witness ==
    \E t \in Callers :
        /\ Decoded(t) /\ OpName(t) = "get_device_info"
        /\ Field(Sent(t), "error_api", JInt(0))
        /\ task[t].outcome.exc = "NevotonApiError"

\* the tokens of text from its first '{' to its last '}', to the end of the
\* text when no '}' follows that '{'
Braced(text) ==
    LET first == CHOOSE i \in 1..Len(text) :
                     text[i].k = "{" /\ \A j \in 1..(i - 1) : text[j].k # "{"
        closers == {j \in (first + 1)..Len(text) : text[j].k = "}"}
    IN  IF closers = {} THEN SubSeq(text, first, Len(text))
        ELSE SubSeq(text, first, CHOOSE j \in closers : \A h \in closers : h <= j)

ReceivedText(t) == decode(task[t].response)
HasOpen(text) == \E i \in 1..Len(text) : text[i].k = "{"

\* C4: a response text received without transport failure that holds no '{',
\* or whose part from the first '{' to the last '}' (to the end when no '}'
\* follows) is not a decodable JSON value, makes the request raise plain
\* NevotonApiError; nothing is returned.
C4_Malformed ==
    \A t \in Callers :
        Answered(t) /\ (~HasOpen(ReceivedText(t))
                        \/ ~JsonLoads(Braced(ReceivedText(t))).ok)
        => /\ task[t].outcome.exc = "NevotonApiError"
           /\ task[t].outcome.ret = NoValue
           /\ ~task[t].outcome.extracted

\* a text with a '{', a '}' and a second '}' after them
C4_Witness ==
    \E t \in Callers :
        /\ Answered(t)
        /\ ReceivedText(t) = <<LBrace, RBrace, RBrace>>
        /\ task[t].outcome.exc = "NevotonApiError"

\* C5 as stated: a snapshot wrapped in two status lines and any garbage is
\* decoded to exactly that snapshot.
C5_RoundTripAnyGarbage ==
    \A t \in Callers :
        Answered(t) /\ IsWrapped(task[t].wire) => task[t].outcome.data = Sent(t)

\* C5 amended: a snapshot wrapped in two status lines and garbage that holds
\* no '{' before the object and no '}' after it is decoded to exactly that
\* snapshot.
C5_RoundTrip ==
    \A t \in Callers :
        Answered(t) /\ IsWrapped(task[t].wire) /\ Framed(task[t].wire)
        => /\ task[t].outcome.data = Sent(t)
           /\ task[t].outcome.exc = "none"

\* a nested snapshot with garbage on both sides ('}' before, '{' after)
C5_Witness ==
    \E t \in Callers :
        /\ Answered(t) /\ IsWrapped(task[t].wire)
        /\ task[t].wire.head = <<StatusLine, StatusLine, BadByte, RBrace>>
        /\ task[t].wire.tail = <<LBrace>>
        /\ HasKey(Sent(t), "a")
        /\ task[t].outcome.data = Sent(t)

\* the write was acknowledged: an outputs section whose error_ch is 0
Acked(d) ==
    /\ HasKey(d, "outputs") /\ d.o["outputs"].t = "obj"
    /\ Field(d.o["outputs"], "error_ch", JInt(0))

\* C6: for an error-free decoded response set_parameter returns true exactly
\* when the outputs section has error_ch = 0, and returns false without
\* raising in every other case (outputs of an unexpected shape included).
C6_WriteResult ==
    \A t \in Callers :
        Decoded(t) /\ OpName(t) = "set_parameter" /\ ErrorFree(Sent(t))
        => /\ task[t].outcome.exc = "none"
           /\ task[t].outcome.ret = PyBool(Acked(Sent(t)))

\* the value mapping at inputs.data[0].value, when that nesting is there
HasValue(d) ==
    /\ HasKey(d, "inputs") /\ d.o["inputs"].t = "obj"
    /\ HasKey(d.o["inputs"], "data") /\ d.o["inputs"].o["data"].t = "list"
    /\ Len(d.o["inputs"].o["data"].l) > 0
    /\ d.o["inputs"].o["data"].l[1].t = "obj"
    /\ HasKey(d.o["inputs"].o["data"].l[1], "value")
ValueOf(d) == d.o["inputs"].o["data"].l[1].o["value"]
\* a level of the nesting is absent or empty
NestingAbsent(d) ==
    \/ ~HasKey(d, "inputs")
    \/ /\ d.o["inputs"].t = "obj"
       /\ \/ ~HasKey(d.o["inputs"], "data")
          \/ d.o["inputs"].o["data"] = JList(<<>>)
          \/ /\ d.o["inputs"].o["data"].t = "list"
             /\ Len(d.o["inputs"].o["data"].l) > 0
             /\ d.o["inputs"].o["data"].l[1].t = "obj"
             /\ ~HasKey(d.o["inputs"].o["data"].l[1], "value")

\* C7: for an error-free decoded response get_state returns the value found at
\* inputs.data[0].value, returns an empty mapping without raising when a level
\* of that nesting is absent or empty, and what it returns is always a mapping.
C7_StateResult ==
    \A t \in Callers :
        Decoded(t) /\ OpName(t) = "get_state" /\ ErrorFree(Sent(t))
        => /\ HasValue(Sent(t)) => task[t].outcome.ret = ValueOf(Sent(t))
           /\ NestingAbsent(Sent(t))
              => task[t].outcome.exc = "none" /\ task[t].outcome.ret = EmptyDict
           /\ task[t].outcome.exc = "none" => task[t].outcome.ret.t = "obj"

\* C8: the socket of a request is closed on every exit path before the result
\* or the error reaches the caller; a caller with no request in flight holds
\* no open socket.
C8_SocketReleased ==
    /\ \A t \in Callers :
          task[t].pc \in {"returned", "done", "idle"}
          => task[t].sock \notin {"open", "connected"}
    /\ (\A t \in Callers : task[t].pc = "idle") => OpenCount = 0

\* a request that timed out in recv after receiving bytes has ended
C8_Witness ==
    \E t \in Callers :
        /\ Done(t) /\ task[t].thrown = "timeout" /\ task[t].stage = "recv"
        /\ task[t].partial
        /\ task[t].sock = "closed"

\* C9: a transport failure at any stage (timeout, refusal or reset in connect,
\* send or recv) makes the operation raise NevotonConnectionError; nothing is
\* decoded, extracted or returned from the bytes received before it.
C9_ConnectionError ==
    \A t \in Callers :
        Done(t) /\ task[t].thrown # "none"
        => /\ task[t].outcome.exc = "NevotonConnectionError"
           /\ task[t].outcome.data = NoValue
           /\ task[t].outcome.ret = NoValue
           /\ ~task[t].outcome.extracted

\* a connection reset in recv after bytes were received
C9_Witness ==
    \E t \in Callers :
        /\ Done(t) /\ task[t].thrown = "error" /\ task[t].stage = "recv"
        /\ task[t].partial
        /\ task[t].outcome.exc = "NevotonConnectionError"

\* C10: the client never holds more than one open connection, however the
\* calls of the poll and of an entity's write interleave.
C10_OneConnection == ConnectedCount <= 1

InFlight(t) == task[t].pc \in {"connect", "send", "recv"}

\* C11: the timeout budget covers connect and all reads together: no request
\* is still in flight when more than Timeout seconds of it have gone by
C11_TimeoutBudget == \A t \in Callers : InFlight(t) => task[t].elapsed <= Timeout

\* the executor's job for the operation of t is over
OperationOver(t) == task[t].pc \in {"returned", "done"} /\ task[t].op.name # "none"
\* the connection of t's operation was established
Connected(t) == task[t].stage # "connect"

\* C12 as stated: each call opens exactly one connection and sends exactly one
\* request, whatever the outcome
C12_OneRequestWhateverOutcome ==
    \A t \in Callers :
        OperationOver(t) => task[t].opened = 1 /\ Len(task[t].sent) = 1

\* C12: no internal retry: an operation never creates a second socket nor
\* sends a second request; when it is over it has created exactly one socket
\* and has sent its request exactly once if the connection was established,
\* not at all if it was not
C12_NoRetry ==
    \A t \in Callers :
        /\ task[t].opened <= 1
        /\ Len(task[t].sent) <= 1
        /\ \A i \in 1..Len(task[t].sent) : task[t].sent[i] = task[t].request
        /\ OperationOver(t) =>
              /\ task[t].opened = 1
              /\ Len(task[t].sent) = 1 <=> Connected(t)

\* a write failed after its request was sent, and nothing was repeated
C12_Witness ==
    \E t \in Callers :
        /\ Done(t) /\ OpName(t) = "set_parameter"
        /\ task[t].outcome.exc = "NevotonConnectionError"
        /\ task[t].stage = "recv"
        /\ Len(task[t].sent) = 1

\* the keys of a query, in order
Keys(query) == [i \in 1..Len(query) |-> query[i][1]]
\* the operation-specific parameters, in order
OperationParams(name) ==
    CASE name = "get_device_info" -> <<>>
      [] name = "get_state" -> <<"type", "number">>
      [] name = "set_parameter" -> <<"type", "number", "sp_name", "value">>
\* the digest of the password given at construction, as the query carries it
ConstructionDigest == [lex |-> "chars", n |-> 0, s |-> hexdigest(entry.password)]
\* request rq of operation name carries the digest last, after the parameters
\* of the operation
DigestLast(rq, name) ==
    /\ rq.host = entry.host
    /\ Keys(rq.query) = OperationParams(name) \o <<"hash">>
    /\ rq.query[Len(rq.query)] = <<"hash", ConstructionDigest>>

\* C13: every request built and every request sent carries the digest computed
\* at construction as its last query parameter, after the parameters of the
\* operation; the stored digest and host are those of the construction
C13_DigestLast ==
    /\ client.host = entry.host
    /\ client.password_hash = hexdigest(entry.password)
    /\ \A t \in Callers :
          /\ task[t].request # NoRequest => DigestLast(task[t].request, OpName(t))
          /\ \A i \in 1..Len(task[t].sent) : DigestLast(task[t].sent[i], OpName(t))

\* a write was sent after an earlier identity fetch on the same client
C13_Witness ==
    \E t \in Callers :
        /\ Done(t) /\ OpName(t) = "set_parameter"
        /\ Len(task[t].sent) = 1
        /\ Len(task[t].sent[1].query) = 5
        /\ device_info # NoValue
        /\ entry.password = "other"

\* the text of the value= parameter of a setParameter request
ValueText(rq) == rq.query[4][2]
\* n is x with its fraction cut off toward zero, x in tenths
TruncatedTowardZero(n, x) ==
    /\ x >= 0 => Tenths * n <= x /\ x < Tenths * n + Tenths
    /\ x < 0 => Tenths * n >= x /\ x > Tenths * n - Tenths
\* the text is the integer the argument v truncates to
IntegerOf(text, v) ==
    /\ text.lex = "digits"
    /\ v.t = "int" => text.n = v.n
    /\ v.t = "float" => TruncatedTowardZero(text.n, v.x)
    /\ v = PyFloat(219) => text.n = 21
    /\ v = PyFloat(-5) => text.n = 0

\* C14: the value= parameter of every setParameter request is an integer
\* string, the argument truncated toward zero
C14_IntegerValue ==
    \A t \in Callers :
        OpName(t) = "set_parameter" =>
            /\ task[t].request.query[4][1] = "value"
            /\ IntegerOf(ValueText(task[t].request), task[t].op.value)
            /\ \A i \in 1..Len(task[t].sent) :
                  IntegerOf(ValueText(task[t].sent[i]), task[t].op.value)

\* setParameter was called with -0.5 and the request sent carries value=0
C14_Witness ==
    \E t \in Callers :
        /\ Done(t) /\ OpName(t) = "set_parameter"
        /\ task[t].op.value = PyFloat(-5)
        /\ Len(task[t].sent) = 1
        /\ ValueText(task[t].sent[1]) = [lex |-> "digits", n |-> 0, s |-> ""]

\* the field key of payload d, None when d has no such field
Lookup(d, key) == IF d.t = "obj" /\ key \in DOMAIN d.o THEN d.o[key] ELSE JNull
\* t's getDeviceInfo has succeeded
Fetched(t) == Done(t) /\ OpName(t) = "get_device_info" /\ task[t].outcome.exc = "none"

\* C15: the cached identity is the payload of the most recent successful
\* getDeviceInfo, the one a call that has just succeeded returned; the four
\* accessors return its fields, and None before any successful getDeviceInfo
C15_CachedIdentity ==
    /\ device_info = last_info
    /\ \A t \in Callers : Fetched(t) => device_info = task[t].outcome.ret
    /\ last_info = NoValue =>
          /\ device_id(device_info) = JNull
          /\ device_mac(device_info) = JNull
          /\ firmware_version(device_info) = JNull
          /\ model_name(device_info) = JNull
    /\ last_info # NoValue =>
          /\ device_id(device_info) = Lookup(Lookup(last_info, "device"), "id")
          /\ device_mac(device_info) = Lookup(Lookup(last_info, "device"), "macSTA")
          /\ firmware_version(device_info) = Lookup(last_info, "firmwareVersion")
          /\ model_name(device_info) = Lookup(last_info, "moduleName")

\* getDeviceInfo has just returned the second identity, which has no MAC
C15_Witness ==
    \E t \in Callers :
        /\ Fetched(t)
        /\ task[t].outcome.ret = JObj(Info2)
        /\ device_id(device_info) = JStr("id2")
        /\ device_mac(device_info) = JNull
        /\ firmware_version(device_info) = JStr("fw2")

\* the values of the four accessors
Accessors(info) ==
    <<device_id(info), device_mac(info), firmware_version(info), model_name(info)>>
\* the step is the resumption of a getDeviceInfo of t that succeeds
FetchSucceeds(t) ==
    /\ task[t].pc = "returned" /\ OpName(t) = "get_device_info"
    /\ task'[t].pc = "done" /\ task'[t].outcome.exc = "none"

\* C16: a step changes the cached identity or the value of an accessor only
\* when it is a getDeviceInfo succeeding, and then the new identity is what
\* that call returns; every other step (getState, setParameter, a failing
\* getDeviceInfo) leaves them as they were
C16_OnlyFetchChangesIdentity ==
    [][(device_info' # device_info \/ Accessors(device_info') # Accessors(device_info))
          => \E t \in Callers : FetchSucceeds(t) /\ device_info' = task'[t].outcome.ret]_vars

\* a getDeviceInfo was refused with AuthError, a getState and a setParameter
\* are over in turn, and the identity fetched before them is still cached
C16_Witness ==
    /\ device_info = JObj(Info1)
    /\ \E t \in Callers :
          /\ Done(t)
          /\ \/ OpName(t) = "get_device_info" /\ task[t].outcome.exc = "NevotonAuthError"
             \/ OpName(t) = "get_state" /\ task[t].outcome.exc = "none"
             \/ OpName(t) = "set_parameter" /\ task[t].outcome.exc = "NevotonApiError"

\* t is the coordinator and its setup or update is over
Coordinated(t) ==
    Done(t) /\ task[t].call.kind \in {"coordinator_setup", "coordinator_update"}

\* C17: in setup and in update the coordinator raises ConfigEntryAuthFailed
\* for the client's AuthError, never UpdateFailed, and UpdateFailed for its
\* ConnectionError and every other ApiError; an update whose state fetch
\* succeeded returns the snapshot unchanged
C17_Classification ==
    \A t \in Callers :
        Coordinated(t) =>
            /\ task[t].outcome.exc = "NevotonAuthError"
                  => task[t].result = [exc |-> "ConfigEntryAuthFailed", ret |-> NoValue]
            /\ task[t].outcome.exc \in {"NevotonConnectionError", "NevotonApiError"}
                  => task[t].result = [exc |-> "UpdateFailed", ret |-> NoValue]
            /\ task[t].call.kind = "coordinator_update" /\ task[t].outcome.exc = "none"
                  => task[t].result = [exc |-> "none", ret |-> task[t].outcome.ret]

\* a periodic update was refused by the device and ended in ConfigEntryAuthFailed
C17_Witness ==
    \E t \in Callers :
        /\ Coordinated(t) /\ task[t].call.kind = "coordinator_update"
        /\ task[t].outcome.exc = "NevotonAuthError"
        /\ task[t].result.exc = "ConfigEntryAuthFailed"

\* the write operations of the entities
EntityKinds ==
    {"switch_turn_on", "switch_turn_off", "light_turn_on", "light_turn_off",
     "number_set_native_value", "climate_set_temperature", "climate_set_hvac_mode"}
\* t is in an entity write operation that issues writes
Writing(t) == task[t].call.kind \in EntityKinds /\ Len(task[t].call.api) > 0
\* the positions of the refresh requests in a log
Refreshes(log) == {i \in 1..Len(log) : log[i].ev = "refresh"}
\* the k-th write of t raised
WriteRaised(t, k) ==
    2 * k <= Len(task[t].log) /\ task[t].log[2 * k].exc # "none"

\* C18: an entity write operation issues its writes in order, each after the
\* one before it has completed, and then requests one refresh, after all of
\* them have completed; MainPower_switch precedes Heat_switch in set-mode HEAT;
\* once a write raises nothing more is issued, neither write nor refresh
C18_RefreshAfterWrites ==
    \A t \in Callers :
        Writing(t) =>
            LET log == task[t].log
                writes == task[t].call.api
                n == Len(writes)
            IN  /\ Len(log) <= 2 * n + 1
                /\ \A k \in 1..n :
                      /\ 2 * k - 1 <= Len(log) =>
                            log[2 * k - 1].ev = "call" /\ log[2 * k - 1].op = writes[k]
                      /\ 2 * k <= Len(log) => log[2 * k].ev = "result"
                      /\ WriteRaised(t, k) => Len(log) = 2 * k /\ Done(t)
                /\ Refreshes(log) \subseteq {2 * n + 1}
                /\ Done(t) /\ (\A k \in 1..n : ~WriteRaised(t, k))
                      => Refreshes(log) = {2 * n + 1}
                /\ task[t].call.kind = "climate_set_hvac_mode" /\ n = 2
                      => /\ writes[1].parameter = "MainPower_switch"
                         /\ writes[2].parameter = "Heat_switch"

\* set-mode HEAT is over: MainPower_switch, then Heat_switch, then the refresh
C18_Witness ==
    \E t \in Callers :
        /\ Done(t) /\ task[t].call.kind = "climate_set_hvac_mode"
        /\ Len(task[t].log) = 5
        /\ task[t].log[1].op.parameter = "MainPower_switch"
        /\ task[t].log[3].op.parameter = "Heat_switch"
        /\ task[t].log[5].ev = "refresh"

\* the dependent second write of t's operation has been issued
SecondWriteIssued(t) ==
    Writing(t) /\ Len(task[t].call.api) >= 2 /\ Len(task[t].log) >= 3

\* C19: in an entity operation of more than one write, the dependent second
\* write is issued only when the first write raised nothing and returned true
C19_SecondWriteOnlyAfterTrue ==
    \A t \in Callers :
        SecondWriteIssued(t) =>
            /\ task[t].log[2].exc = "none"
            /\ task[t].log[2].ret = PyBool(TRUE)
=============================================================================
